---- MODULE Spec2Model ----
(***************************************************************************)
(* The RLP decoder of runtime/stdlib/rlp/rlp.go: ReadSize, DecodeString    *)
(* and DecodeList, as functions of a byte buffer inp and a start index.    *)
(*                                                                         *)
(* Go's int and uint are 64 bits wide.  A 64-bit value is kept here as its *)
(* eight bytes, most significant first (the layout of lenData in ReadSize),*)
(* so that startIndex + dataSize wraps exactly as it does in Go.           *)
(* Go indexes from 0, TLA+ sequences from 1: inp[i] in Go is inp[i + 1].   *)
(***************************************************************************)
EXTENDS Integers, Sequences, FiniteSets, TLC

\* ---------------------------------------------------------------- bounds

\* Longest buffer built from every combination of the bytes of Alphabet.
MaxLen == 3

\* Largest start index tried on the long buffers.
MaxStart == 3

\* The number of distinct key strings given to the ordered map.
NumKeys == 3

\* The number of distinct non-nil ValueDeclaration values given to it.
NumValues == 1

\* ------------------------------------------------------- program constants

ByteRangeEnd == 127
ShortStringRangeStart == 128
ShortStringRangeEnd == 183
LongStringRangeStart == 184
LongStringRangeEnd == 191
ShortListRangeStart == 192
ShortListRangeEnd == 247
LongListRangeStart == 248
MaxShortLengthAllowed == 55

\* math.MaxInt64 = 0x7FFFFFFFFFFFFFFF
MaxLongLengthAllowed == <<127, 255, 255, 255, 255, 255, 255, 255>>

NoErr == "nil"
ErrEmptyInput == "ErrEmptyInput"
ErrInvalidStartIndex == "ErrInvalidStartIndex"
ErrIncompleteInput == "ErrIncompleteInput"
ErrNonCanonicalInput == "ErrNonCanonicalInput"
ErrDataSizeTooLarge == "ErrDataSizeTooLarge"
ErrListSizeMismatch == "ErrListSizeMismatch"
ErrInputContainsExtraBytes == "ErrInputContainsExtraBytes"
ErrTypeMismatch == "ErrTypeMismatch"

\* The eight errors the package declares.
DefinedErrors ==
    { ErrEmptyInput, ErrInvalidStartIndex, ErrIncompleteInput, ErrNonCanonicalInput,
      ErrDataSizeTooLarge, ErrListSizeMismatch, ErrInputContainsExtraBytes,
      ErrTypeMismatch }

\* A run-time panic of the Go runtime (slice bounds out of range): not an error value.
Panic == "panic"

\* ------------------------------------------------------ 64-bit arithmetic

\* The 64-bit value of a small non-negative integer (0 <= n < 2^31).
W(n) ==
    [i \in 1..8 |->
        CASE i <= 4 -> 0
          [] i = 5 -> (n \div 16777216) % 256
          [] i = 6 -> (n \div 65536) % 256
          [] i = 7 -> (n \div 256) % 256
          [] i = 8 -> n % 256]

\* The carry into byte i-1 when a and b are added (bytes i..8 summed).
RECURSIVE CarryW(_, _, _)
CarryW(a, b, i) ==
    IF i > 8 THEN 0 ELSE (a[i] + b[i] + CarryW(a, b, i + 1)) \div 256

\* a + b in 64 bits, wrapping modulo 2^64 as Go's + on int does.
AddW(a, b) ==
    [i \in 1..8 |-> (a[i] + b[i] + CarryW(a, b, i + 1)) % 256]

\* a < b for uint64.
LtU(a, b) ==
    \E i \in 1..8 : a[i] < b[i] /\ \A j \in 1..(i - 1) : a[j] = b[j]

\* The sign bit of an int64.
NegW(a) == a[1] >= 128

\* a < b for int64 (two's complement).
LtS(a, b) ==
    IF NegW(a) # NegW(b) THEN NegW(a) ELSE LtU(a, b)

\* A 64-bit value that is a small non-negative integer (below 2^31).
IsSmallW(a) == (\A i \in 1..4 : a[i] = 0) /\ a[5] < 128

\* ... and that integer.
ValW(a) == a[5] * 16777216 + a[6] * 65536 + a[7] * 256 + a[8]

\* ---------------------------------------------------------------- ReadSize

\* The error return of ReadSize: "return false, 0, 0, err".
ReadSizeErr(e) ==
    [isString |-> FALSE, dataStartIndex |-> 0, dataSize |-> W(0), err |-> e]

ReadSizeOk(isString, dataStartIndex, dataSize) ==
    [isString |-> isString, dataStartIndex |-> dataStartIndex,
     dataSize |-> dataSize, err |-> NoErr]

\* lenData: 8 bytes, the n length bytes inp[startIndex:endIndex] copied to
\* lenData[8-n:], the rest zero; binary.BigEndian.Uint64 reads it as is.
LenData(inp, startIndex, n) ==
    [i \in 1..8 |-> IF i <= 8 - n THEN 0 ELSE inp[startIndex + (i - (8 - n)) ]]

\* The long forms (first byte in 0xb8..0xbf or 0xf8..0xff); startIndex is
\* already past the first byte.
\* Mutant of ReadSizeLong: for two length bytes or more, the check that they
\* are all present comes before the check of a leading zero.
ReadSizeLongIncompleteFirst(inp, startIndex, firstByte) ==
    LET isString == firstByte >= LongStringRangeStart /\ firstByte <= LongStringRangeEnd
        bytesToReadForLen ==
            IF firstByte >= LongListRangeStart
            THEN firstByte - ShortListRangeEnd
            ELSE firstByte - ShortStringRangeEnd
    IN  IF startIndex >= Len(inp) THEN ReadSizeErr(ErrIncompleteInput)
        ELSE IF bytesToReadForLen = 1 THEN
            LET strLen == inp[startIndex + 1]
            IN  IF strLen <= MaxShortLengthAllowed
                THEN ReadSizeErr(ErrNonCanonicalInput)
                ELSE ReadSizeOk(isString, startIndex + 1, W(strLen))
        ELSE LET endIndex == startIndex + bytesToReadForLen
             IN  IF endIndex > Len(inp) THEN ReadSizeErr(ErrIncompleteInput)
                 ELSE IF inp[startIndex + 1] = 0 THEN ReadSizeErr(ErrNonCanonicalInput)
                 ELSE LET strLen == LenData(inp, startIndex, bytesToReadForLen)
                      IN  IF ~LtU(W(MaxShortLengthAllowed), strLen)
                          THEN ReadSizeErr(ErrNonCanonicalInput)
                          ELSE IF LtU(MaxLongLengthAllowed, strLen)
                          THEN ReadSizeErr(ErrDataSizeTooLarge)
                          ELSE ReadSizeOk(isString, endIndex, strLen)

\* Mutant of ReadSizeLong: an error return keeps the isString already set,
\* "return isString, 0, 0, err".
ReadSizeLongKeepsIsString(inp, startIndex, firstByte) ==
    LET isString == firstByte >= LongStringRangeStart /\ firstByte <= LongStringRangeEnd
        bytesToReadForLen ==
            IF firstByte >= LongListRangeStart
            THEN firstByte - ShortListRangeEnd
            ELSE firstByte - ShortStringRangeEnd
        Err(e) == [ReadSizeErr(e) EXCEPT !.isString = isString]
    IN  IF startIndex >= Len(inp) THEN Err(ErrIncompleteInput)
        ELSE IF bytesToReadForLen = 1 THEN
            LET strLen == inp[startIndex + 1]
            IN  IF strLen <= MaxShortLengthAllowed
                THEN Err(ErrNonCanonicalInput)
                ELSE ReadSizeOk(isString, startIndex + 1, W(strLen))
        ELSE IF inp[startIndex + 1] = 0 THEN Err(ErrNonCanonicalInput)
        ELSE LET endIndex == startIndex + bytesToReadForLen
             IN  IF endIndex > Len(inp) THEN Err(ErrIncompleteInput)
                 ELSE LET strLen == LenData(inp, startIndex, bytesToReadForLen)
                      IN  IF ~LtU(W(MaxShortLengthAllowed), strLen)
                          THEN Err(ErrNonCanonicalInput)
                          ELSE IF LtU(MaxLongLengthAllowed, strLen)
                          THEN Err(ErrDataSizeTooLarge)
                          ELSE ReadSizeOk(isString, endIndex, strLen)

\* Mutant of ReadSizeLong: the test strLen > MaxLongLengthAllowed is missing.
ReadSizeLongNoSizeLimit(inp, startIndex, firstByte) ==
    LET isString == firstByte >= LongStringRangeStart /\ firstByte <= LongStringRangeEnd
        bytesToReadForLen ==
            IF firstByte >= LongListRangeStart
            THEN firstByte - ShortListRangeEnd
            ELSE firstByte - ShortStringRangeEnd
    IN  IF startIndex >= Len(inp) THEN ReadSizeErr(ErrIncompleteInput)
        ELSE IF bytesToReadForLen = 1 THEN
            LET strLen == inp[startIndex + 1]
            IN  IF strLen <= MaxShortLengthAllowed
                THEN ReadSizeErr(ErrNonCanonicalInput)
                ELSE ReadSizeOk(isString, startIndex + 1, W(strLen))
        ELSE IF inp[startIndex + 1] = 0 THEN ReadSizeErr(ErrNonCanonicalInput)
        ELSE LET endIndex == startIndex + bytesToReadForLen
             IN  IF endIndex > Len(inp) THEN ReadSizeErr(ErrIncompleteInput)
                 ELSE LET strLen == LenData(inp, startIndex, bytesToReadForLen)
                      IN  IF ~LtU(W(MaxShortLengthAllowed), strLen)
                          THEN ReadSizeErr(ErrNonCanonicalInput)
                          ELSE ReadSizeOk(isString, endIndex, strLen)

ReadSizeLong(inp, startIndex, firstByte) ==
    LET isString == firstByte >= LongStringRangeStart /\ firstByte <= LongStringRangeEnd
        bytesToReadForLen ==
            IF firstByte >= LongListRangeStart
            THEN firstByte - ShortListRangeEnd
            ELSE firstByte - ShortStringRangeEnd
    IN  IF startIndex >= Len(inp) THEN ReadSizeErr(ErrIncompleteInput)
        ELSE IF bytesToReadForLen = 1 THEN
            LET strLen == inp[startIndex + 1]
            IN  IF strLen <= MaxShortLengthAllowed
                THEN ReadSizeErr(ErrNonCanonicalInput)
                ELSE ReadSizeOk(isString, startIndex + 1, W(strLen))
        ELSE IF inp[startIndex + 1] = 0 THEN ReadSizeErr(ErrNonCanonicalInput)
        ELSE LET endIndex == startIndex + bytesToReadForLen
             IN  IF endIndex > Len(inp) THEN ReadSizeErr(ErrIncompleteInput)
                 ELSE LET strLen == LenData(inp, startIndex, bytesToReadForLen)
                      IN  IF ~LtU(W(MaxShortLengthAllowed), strLen)
                          THEN ReadSizeErr(ErrNonCanonicalInput)
                          ELSE IF LtU(MaxLongLengthAllowed, strLen)
                          THEN ReadSizeErr(ErrDataSizeTooLarge)
                          ELSE ReadSizeOk(isString, endIndex, strLen)

\* Mutant of ReadSize: the start index is checked before the empty input.
ReadSizeStartIndexFirst(inp, startIndex) ==
    IF startIndex >= Len(inp) THEN ReadSizeErr(ErrInvalidStartIndex)
    ELSE IF Len(inp) = 0 THEN ReadSizeErr(ErrEmptyInput)
    ELSE LET firstByte == inp[startIndex + 1]
         IN  IF firstByte <= ByteRangeEnd
             THEN ReadSizeOk(TRUE, startIndex, W(1))
             ELSE IF firstByte <= ShortStringRangeEnd
             THEN ReadSizeOk(TRUE, startIndex + 1, W(firstByte - ShortStringRangeStart))
             ELSE IF firstByte >= ShortListRangeStart /\ firstByte <= ShortListRangeEnd
             THEN ReadSizeOk(FALSE, startIndex + 1, W(firstByte - ShortListRangeStart))
             ELSE ReadSizeLong(inp, startIndex + 1, firstByte)

\* Mutant of ReadSize: a short string or short list whose payload does not
\* fit in inp is reported as incomplete.
ReadSizeChecksPayload(inp, startIndex) ==
    IF Len(inp) = 0 THEN ReadSizeErr(ErrEmptyInput)
    ELSE IF startIndex >= Len(inp) THEN ReadSizeErr(ErrInvalidStartIndex)
    ELSE LET firstByte == inp[startIndex + 1]
         IN  IF firstByte <= ByteRangeEnd
             THEN ReadSizeOk(TRUE, startIndex, W(1))
             ELSE IF firstByte <= ShortStringRangeEnd
             THEN IF startIndex + 1 + (firstByte - ShortStringRangeStart) > Len(inp)
                  THEN ReadSizeErr(ErrIncompleteInput)
                  ELSE ReadSizeOk(TRUE, startIndex + 1,
                                  W(firstByte - ShortStringRangeStart))
             ELSE IF firstByte >= ShortListRangeStart /\ firstByte <= ShortListRangeEnd
             THEN IF startIndex + 1 + (firstByte - ShortListRangeStart) > Len(inp)
                  THEN ReadSizeErr(ErrIncompleteInput)
                  ELSE ReadSizeOk(FALSE, startIndex + 1,
                                  W(firstByte - ShortListRangeStart))
             ELSE ReadSizeLong(inp, startIndex + 1, firstByte)

\* Mutant of ReadSize: the short string range ends one byte early, at 0xb6.
ReadSizeShortStringEndsEarly(inp, startIndex) ==
    IF Len(inp) = 0 THEN ReadSizeErr(ErrEmptyInput)
    ELSE IF startIndex >= Len(inp) THEN ReadSizeErr(ErrInvalidStartIndex)
    ELSE LET firstByte == inp[startIndex + 1]
         IN  IF firstByte <= ByteRangeEnd
             THEN ReadSizeOk(TRUE, startIndex, W(1))
             ELSE IF firstByte < ShortStringRangeEnd
             THEN ReadSizeOk(TRUE, startIndex + 1, W(firstByte - ShortStringRangeStart))
             ELSE IF firstByte >= ShortListRangeStart /\ firstByte <= ShortListRangeEnd
             THEN ReadSizeOk(FALSE, startIndex + 1, W(firstByte - ShortListRangeStart))
             ELSE ReadSizeLong(inp, startIndex + 1, firstByte)

ReadSize(inp, startIndex) ==
    IF Len(inp) = 0 THEN ReadSizeErr(ErrEmptyInput)
    ELSE IF startIndex >= Len(inp) THEN ReadSizeErr(ErrInvalidStartIndex)
    ELSE LET firstByte == inp[startIndex + 1]
         IN  IF firstByte <= ByteRangeEnd
             THEN ReadSizeOk(TRUE, startIndex, W(1))
             ELSE IF firstByte <= ShortStringRangeEnd
             THEN ReadSizeOk(TRUE, startIndex + 1, W(firstByte - ShortStringRangeStart))
             ELSE IF firstByte >= ShortListRangeStart /\ firstByte <= ShortListRangeEnd
             THEN ReadSizeOk(FALSE, startIndex + 1, W(firstByte - ShortListRangeStart))
             ELSE ReadSizeLong(inp, startIndex + 1, firstByte)

\* ------------------------------------------------------------ DecodeString

\* A []byte result: isNil distinguishes Go's nil slice from an empty one.
StrErr(e) == [str |-> <<>>, isNil |-> TRUE, err |-> e]

StrOk(bytes) == [str |-> bytes, isNil |-> FALSE, err |-> NoErr]

\* inp[lo:hi] with lo a small index and hi a 64-bit int: Go panics unless
\* 0 <= lo <= hi <= cap(inp).  Every use below has already checked
\* hi <= len(inp) as signed integers, so only a negative hi or hi < lo is left.
SliceInBounds(inp, lo, hi) ==
    /\ ~NegW(hi)
    /\ ~LtS(hi, W(lo))
    /\ ~LtS(W(Len(inp)), hi)

Slice(inp, lo, hi) == SubSeq(inp, lo + 1, ValW(hi))

DecodeString(inp, startIndex) ==
    LET r == ReadSize(inp, startIndex)
    IN  IF r.err # NoErr THEN StrErr(r.err)
        ELSE IF ~r.isString THEN StrErr(ErrTypeMismatch)
        ELSE IF r.dataSize = W(1) /\ startIndex = r.dataStartIndex THEN
            IF Len(inp) > 1 THEN StrErr(ErrInputContainsExtraBytes)
            ELSE StrOk(<<inp[r.dataStartIndex + 1]>>)
        ELSE LET dataEndIndex == AddW(W(r.dataStartIndex), r.dataSize)
             IN  IF LtS(W(Len(inp)), dataEndIndex) THEN StrErr(ErrIncompleteInput)
                 ELSE IF LtS(dataEndIndex, W(Len(inp)))
                 THEN StrErr(ErrInputContainsExtraBytes)
                 ELSE IF ~SliceInBounds(inp, r.dataStartIndex, dataEndIndex)
                 THEN StrErr(Panic)
                 ELSE StrOk(Slice(inp, r.dataStartIndex, dataEndIndex))

\* -------------------------------------------------------------- DecodeList

\* A [][]byte result.
ListErr(e) == [encodedItems |-> <<>>, isNil |-> TRUE, err |-> e]

ListOk(items) == [encodedItems |-> items, isNil |-> FALSE, err |-> NoErr]

\* The locals of DecodeList while it runs: pc is "loop" at the head of the for
\* loop and "done" once it has returned, with its return value in ret.
ListState(pc, itemStartIndex, bytesRead, retList, listDataSize, ret) ==
    [pc |-> pc, itemStartIndex |-> itemStartIndex, bytesRead |-> bytesRead,
     retList |-> retList, listDataSize |-> listDataSize, ret |-> ret]

ListReturn(ret) == ListState("done", 0, 0, <<>>, W(0), ret)

\* Mutant of DecodeListEnter: the type check is missing.
DecodeListEnterNoTypeCheck(inp, startIndex) ==
    LET r == ReadSize(inp, startIndex)
    IN  IF r.err # NoErr THEN ListReturn(ListErr(r.err))
        ELSE ListState("loop", r.dataStartIndex, 0, <<>>, r.dataSize, ListErr(NoErr))

\* DecodeList up to the head of the loop: the header is read, the type checked.
DecodeListEnter(inp, startIndex) ==
    LET r == ReadSize(inp, startIndex)
    IN  IF r.err # NoErr THEN ListReturn(ListErr(r.err))
        ELSE IF r.isString THEN ListReturn(ListErr(ErrTypeMismatch))
        ELSE ListState("loop", r.dataStartIndex, 0, <<>>, r.dataSize, ListErr(NoErr))

\* The loop condition, bytesRead < listDataSize.
DecodeListMore(st) == LtS(W(st.bytesRead), st.listDataSize)

\* Mutant of DecodeListItem: the slice starts at the item's header,
\* inp[itemStartIndex:itemEndIndex].
DecodeListItemFromHeader(inp, itemStartIndex, itemDataStartIndex, itemEndIndex) ==
    Slice(inp, itemStartIndex, itemEndIndex)

\* The sub-slice an iteration appends: inp[itemDataStartIndex:itemEndIndex].
DecodeListItem(inp, itemStartIndex, itemDataStartIndex, itemEndIndex) ==
    Slice(inp, itemDataStartIndex, itemEndIndex)

\* Mutant of DecodeListIter: the iteration looks inside the item and rejects a
\* one-byte string that should have been a single byte.
DecodeListIterChecksPayload(inp, st) ==
    LET r == ReadSize(inp, st.itemStartIndex)
        itemEndIndex == AddW(W(r.dataStartIndex), r.dataSize)
    IN  IF r.err # NoErr THEN ListReturn(ListErr(r.err))
        ELSE IF LtS(W(Len(inp)), itemEndIndex) THEN ListReturn(ListErr(ErrIncompleteInput))
        ELSE IF ~SliceInBounds(inp, r.dataStartIndex, itemEndIndex)
        THEN ListReturn(ListErr(Panic))
        ELSE IF /\ r.isString /\ r.dataSize = W(1)
                /\ r.dataStartIndex > st.itemStartIndex
                /\ inp[r.dataStartIndex + 1] <= ByteRangeEnd
        THEN ListReturn(ListErr(ErrNonCanonicalInput))
        ELSE ListState("loop",
                       ValW(itemEndIndex),
                       st.bytesRead + (ValW(itemEndIndex) - st.itemStartIndex),
                       Append(st.retList,
                              DecodeListItem(inp, st.itemStartIndex, r.dataStartIndex,
                                             itemEndIndex)),
                       st.listDataSize,
                       st.ret)

\* One iteration of the loop body.
DecodeListIter(inp, st) ==
    LET r == ReadSize(inp, st.itemStartIndex)
        itemEndIndex == AddW(W(r.dataStartIndex), r.dataSize)
    IN  IF r.err # NoErr THEN ListReturn(ListErr(r.err))
        ELSE IF LtS(W(Len(inp)), itemEndIndex) THEN ListReturn(ListErr(ErrIncompleteInput))
        ELSE IF ~SliceInBounds(inp, r.dataStartIndex, itemEndIndex)
        THEN ListReturn(ListErr(Panic))
        ELSE ListState("loop",
                       ValW(itemEndIndex),
                       st.bytesRead + (ValW(itemEndIndex) - st.itemStartIndex),
                       Append(st.retList,
                              DecodeListItem(inp, st.itemStartIndex, r.dataStartIndex,
                                             itemEndIndex)),
                       st.listDataSize,
                       st.ret)

\* Mutant of DecodeListExit: the check bytesRead != listDataSize is missing.
DecodeListExitNoSizeCheck(inp, st) ==
    IF Len(inp) > st.itemStartIndex
    THEN ListReturn(ListErr(ErrInputContainsExtraBytes))
    ELSE ListReturn(ListOk(st.retList))

\* Mutant of DecodeListExit: the trailing-bytes check comes before the size
\* check.
DecodeListExitExtraBytesFirst(inp, st) ==
    IF Len(inp) > st.itemStartIndex
    THEN ListReturn(ListErr(ErrInputContainsExtraBytes))
    ELSE IF W(st.bytesRead) # st.listDataSize
    THEN ListReturn(ListErr(ErrListSizeMismatch))
    ELSE ListReturn(ListOk(st.retList))

\* After the loop: the size and the trailing-bytes checks, and the return.
DecodeListExit(inp, st) ==
    IF W(st.bytesRead) # st.listDataSize THEN ListReturn(ListErr(ErrListSizeMismatch))
    ELSE IF Len(inp) > st.itemStartIndex
    THEN ListReturn(ListErr(ErrInputContainsExtraBytes))
    ELSE ListReturn(ListOk(st.retList))

RECURSIVE DecodeListRun(_, _)
DecodeListRun(inp, st) ==
    IF st.pc = "done" THEN st.ret
    ELSE IF DecodeListMore(st) THEN DecodeListRun(inp, DecodeListIter(inp, st))
    ELSE DecodeListRun(inp, DecodeListExit(inp, st))

\* DecodeList as a function of its arguments.
DecodeList(inp, startIndex) == DecodeListRun(inp, DecodeListEnter(inp, startIndex))

\* ------------------------------------------------------------------ inputs

\* Bytes on both sides of every boundary ReadSize tests.
Alphabet ==
    {0, 55, 56, 127, 128, 129, 183, 184, 185, 192, 193, 194, 247, 248, 255}

SeqsUpTo(S, n) == UNION { [1..k -> S] : k \in 0..n }

ShortInputs == SeqsUpTo(Alphabet, MaxLen)

Fill(b, k) == [i \in 1..k |-> b]

\* Headers of long items, and of lists around them.
LongHeaders ==
    { <<184, 56>>, <<248, 56>>, <<185, 1, 0>>, <<249, 1, 0>>,
      <<193, 184, 56>>, <<248, 58, 184, 56>>,
      <<191, 127, 255, 255, 255, 255, 255, 255, 255>>,
      <<191, 128, 0, 0, 0, 0, 0, 0, 0>>,
      <<255, 127, 255, 255, 255, 255, 255, 255, 255>>,
      <<255, 255, 255, 255, 255, 255, 255, 255, 255>>,
      <<201, 191, 127, 255, 255, 255, 255, 255, 255, 255>>,
      <<201, 255, 127, 255, 255, 255, 255, 255, 255, 255>>,
      <<202, 128, 191, 127, 255, 255, 255, 255, 255, 255, 255>> }

PadLens == {0, 1, 55, 56, 57}

\* k bytes that are a run of sub-items: strings of seven bytes (0x87 and the
\* seven bytes), then single bytes for the rest.
Chunks(k) ==
    [i \in 1..k |->
        IF i <= 8 * (k \div 8) THEN (IF i % 8 = 1 THEN 135 ELSE 65) ELSE 0]

\* A long string of 62 bytes: 64 bytes with its header.
BigItem == <<184, 62>> \o Fill(0, 62)

\* Items whose length takes two bytes: strings of 255..257 bytes under a
\* header that declares 256, and lists of four 64-byte items under it.
TwoByteLengthInputs ==
    { <<185, 1, 0>> \o Fill(0, k) : k \in {255, 256, 257} }
        \cup { <<249, 1, 0>> \o BigItem \o BigItem \o BigItem \o BigItem \o t :
                    t \in {<<>>, <<0>>} }
        \cup { <<249, 1, 0>> \o BigItem \o BigItem \o BigItem }

\* Lists of two three-byte strings (8 bytes of payload) whose header declares
\* 7, 8 or 9 bytes, with and without bytes before and after the list.
ListInputs ==
    { p \o <<h>> \o <<131, 65, 66, 67, 131, 69, 70, 71>> \o t :
        p \in {<<>>, <<0>>, <<192, 0>>}, h \in {199, 200, 201}, t \in {<<>>, <<1>>} }

LongInputs ==
    { h \o Chunks(k) : h \in LongHeaders, k \in PadLens }
        \cup { h \o <<192>> : h \in LongHeaders }
        \cup TwoByteLengthInputs \cup ListInputs

Min(a, b) == IF a <= b THEN a ELSE b

\* The start indices tried on a buffer: every position, and past the end.
StartIndexes(b) == 0..Min(Len(b) + 1, MaxStart)

\* ------------------------------------------------------------ state machine

VARIABLES
    inp,             \* the buffer
    startIndex,      \* the start index argument
    op,              \* the function called: "ReadSize", "DecodeString", "DecodeList"
    pc,              \* "ready" before the call, "loop" inside DecodeList's loop, "done"
    out,             \* the return value once pc = "done"
    itemStartIndex,  \* DecodeList's locals
    bytesRead,
    retList,
    listDataSize

\* The StringValueDeclarationOrderedMap om and the last call made on it.
VARIABLES
    pairs,           \* om.pairs: key -> pair
    pairObjs,        \* the StringValueDeclarationPair objects: Key, Value, element
    elements,        \* om.list: its root and its elements: next, prev, list, Value
    listLen,         \* om.list.len
    mapOp,           \* the method called last, with its arguments
    mapRet,          \* its return value (for Foreach: the calls of f, in order)
    insertionOrder   \* history: the present keys by the Set that made them present

rlpVars == <<inp, startIndex, op, pc, out, itemStartIndex, bytesRead, retList, listDataSize>>

mapVars == <<pairs, pairObjs, elements, listLen, mapOp, mapRet, insertionOrder>>

vars == <<rlpVars, mapVars>>

\* ------------------------------------------------------------- ordered map

\* Go's nil: a nil pointer, a nil ValueDeclaration.
Nil == <<"nil">>

\* The sentinel element &l.root of the list.
Root == <<"root">>

\* The key strings and the values given to the map; a value may be nil.
Keys == 1..NumKeys

Values == { <<"value", i>> : i \in 1..NumValues } \cup {Nil}

\* The addresses of the list elements and of the pairs allocated by Set.  At
\* most one pair and one element of om are live for a key, and an object no
\* pointer of om leads to any more is gone: the address stands for "the pair
\* (the element) allocated for this key by the last Set that inserted it".
ElementIds == { <<"element", key>> : key \in Keys }

PairIds == { <<"pair", key>> : key \in Keys }

NewElement(key) == <<"element", key>>

NewPair(key) == <<"pair", key>>

\* list.New() and l.Init(): the root points to itself.  Init leaves the
\* elements that were in the list as they are, and no pointer of om leads to
\* them once om.pairs is emptied.
ListInit ==
    [x \in {Root} |-> [next |-> Root, prev |-> Root, list |-> FALSE, Value |-> Nil]]

\* l.Front() and l.Back().
Front(els, len) == IF len = 0 THEN Nil ELSE els[Root].next

Back(els, len) == IF len = 0 THEN Nil ELSE els[Root].prev

\* e.Next() and e.Prev(): nil at the root, and for an element in no list.
ElementNext(els, e) == IF els[e].list /\ els[e].next # Root THEN els[e].next ELSE Nil

ElementPrev(els, e) == IF els[e].list /\ els[e].prev # Root THEN els[e].prev ELSE Nil

\* Mutant of PushBack: the new element e is inserted at the front of the list.
PushFront(els, e, v) ==
    LET at == Root
        nxt == els[at].next
        withE == [x \in DOMAIN els \cup {e} |->
                    IF x = e THEN [next |-> nxt, prev |-> at, list |-> TRUE, Value |-> v]
                    ELSE els[x]]
        linked == [withE EXCEPT ![at].next = e]
    IN  [linked EXCEPT ![nxt].prev = e]

\* l.PushBack(v): the new element e holding v is inserted after l.root.prev.
PushBack(els, e, v) ==
    LET at == els[Root].prev
        nxt == els[at].next
        withE == [x \in DOMAIN els \cup {e} |->
                    IF x = e THEN [next |-> nxt, prev |-> at, list |-> TRUE, Value |-> v]
                    ELSE els[x]]
        linked == [withE EXCEPT ![at].next = e]
    IN  [linked EXCEPT ![nxt].prev = e]

\* l.Remove(e), for an element of l: its neighbours are linked to each other.
Remove(els, e) ==
    LET a == [els EXCEPT ![els[e].prev].next = els[e].next]
        b == [a EXCEPT ![els[e].next].prev = els[e].prev]
    IN  [x \in DOMAIN els \ {e} |-> b[x]]

listElementToStringValueDeclarationPair(element) ==
    IF element = Nil THEN Nil ELSE elements[element].Value

\* om.Get(key).
Get(key) ==
    IF key \in DOMAIN pairs THEN <<pairObjs[pairs[key]].Value, TRUE>> ELSE <<Nil, FALSE>>

\* om.Len().
MapLen == Cardinality(DOMAIN pairs)

Oldest == listElementToStringValueDeclarationPair(Front(elements, listLen))

Newest == listElementToStringValueDeclarationPair(Back(elements, listLen))

\* p.Next() and p.Prev() of a pair p.
PairNext(p) ==
    listElementToStringValueDeclarationPair(ElementNext(elements, pairObjs[p].element))

PairPrev(p) ==
    listElementToStringValueDeclarationPair(ElementPrev(elements, pairObjs[p].element))

\* The calls f(pair.Key, pair.Value) of "for pair := p; pair != nil;
\* pair = pair.Next()", at most fuel of them.
RECURSIVE ForeachFrom(_, _)
ForeachFrom(p, fuel) ==
    IF p = Nil \/ fuel = 0 THEN <<>>
    ELSE << <<pairObjs[p].Key, pairObjs[p].Value>> >> \o ForeachFrom(PairNext(p), fuel - 1)

\* The same loop from Newest() with Prev().
RECURSIVE BackwardFrom(_, _)
BackwardFrom(p, fuel) ==
    IF p = Nil \/ fuel = 0 THEN <<>>
    ELSE << <<pairObjs[p].Key, pairObjs[p].Value>> >> \o BackwardFrom(PairPrev(p), fuel - 1)

\* NewStringValueDeclarationOrderedMap(): no call made yet.
NewStringValueDeclarationOrderedMap ==
    /\ pairs = <<>>
    /\ pairObjs = <<>>
    /\ elements = ListInit
    /\ listLen = 0
    /\ mapOp = [name |-> "New", key |-> 0, value |-> Nil]
    /\ mapRet = Nil
    /\ insertionOrder = <<>>

NoOut == [err |-> NoErr]

Init ==
    /\ inp \in ShortInputs \cup LongInputs
    /\ startIndex \in StartIndexes(inp)
    /\ op = "none"
    /\ pc = "ready"
    /\ out = NoOut
    /\ itemStartIndex = 0
    /\ bytesRead = 0
    /\ retList = <<>>
    /\ listDataSize = W(0)
    /\ NewStringValueDeclarationOrderedMap

\* The locals of DecodeList as one record, and back.
CurListState == ListState(pc, itemStartIndex, bytesRead, retList, listDataSize, out)

SetListState(st) ==
    /\ pc' = st.pc
    /\ itemStartIndex' = st.itemStartIndex
    /\ bytesRead' = st.bytesRead
    /\ retList' = st.retList
    /\ listDataSize' = st.listDataSize
    /\ out' = st.ret

CallReadSize ==
    /\ pc = "ready"
    /\ op' = "ReadSize"
    /\ pc' = "done"
    /\ out' = ReadSize(inp, startIndex)
    /\ UNCHANGED <<inp, startIndex, itemStartIndex, bytesRead, retList, listDataSize>>
    /\ UNCHANGED mapVars

CallDecodeString ==
    /\ pc = "ready"
    /\ op' = "DecodeString"
    /\ pc' = "done"
    /\ out' = DecodeString(inp, startIndex)
    /\ UNCHANGED <<inp, startIndex, itemStartIndex, bytesRead, retList, listDataSize>>
    /\ UNCHANGED mapVars

CallDecodeList ==
    /\ pc = "ready"
    /\ op' = "DecodeList"
    /\ SetListState(DecodeListEnter(inp, startIndex))
    /\ UNCHANGED <<inp, startIndex>>
    /\ UNCHANGED mapVars

LoopDecodeList ==
    /\ pc = "loop"
    /\ DecodeListMore(CurListState)
    /\ SetListState(DecodeListIter(inp, CurListState))
    /\ UNCHANGED <<inp, startIndex, op>>
    /\ UNCHANGED mapVars

ExitDecodeList ==
    /\ pc = "loop"
    /\ ~DecodeListMore(CurListState)
    /\ SetListState(DecodeListExit(inp, CurListState))
    /\ UNCHANGED <<inp, startIndex, op>>
    /\ UNCHANGED mapVars

Next ==
    \/ CallReadSize
    \/ CallDecodeString
    \/ CallDecodeList
    \/ LoopDecodeList
    \/ ExitDecodeList

Spec == Init /\ [][Next]_vars

\* The call has returned.
Returned(f) == pc = "done" /\ op = f

\* ------------------------------------------------ ordered map: the methods

\* The method called and its arguments; failAt is the call of f that returns
\* an error in ForeachWithError.
MapCall(name, key, value, failAt) ==
    [name |-> name, key |-> key, value |-> value, failAt |-> failAt]

InitMap ==
    /\ inp = <<>>
    /\ startIndex = 0
    /\ op = "none"
    /\ pc = "ready"
    /\ out = NoOut
    /\ itemStartIndex = 0
    /\ bytesRead = 0
    /\ retList = <<>>
    /\ listDataSize = W(0)
    /\ NewStringValueDeclarationOrderedMap

\* om.Set(key, value).
Set(key, value) ==
    /\ mapOp' = MapCall("Set", key, value, 0)
    /\ IF key \in DOMAIN pairs
       THEN LET pair == pairs[key]
            IN  /\ mapRet' = <<pairObjs[pair].Value, TRUE>>
                /\ pairObjs' = [pairObjs EXCEPT ![pair].Value = value]
                /\ UNCHANGED <<pairs, elements, listLen, insertionOrder>>
       ELSE LET pair == NewPair(key)
                element == NewElement(key)
            IN  /\ elements' = PushBack(elements, element, pair)
                /\ listLen' = listLen + 1
                /\ pairObjs' = [x \in DOMAIN pairObjs \cup {pair} |->
                                    IF x = pair
                                    THEN [Key |-> key, Value |-> value, element |-> element]
                                    ELSE pairObjs[x]]
                /\ pairs' = [k \in DOMAIN pairs \cup {key} |->
                                    IF k = key THEN pair ELSE pairs[k]]
                /\ mapRet' = <<Nil, FALSE>>
                /\ insertionOrder' = Append(insertionOrder, key)
    /\ UNCHANGED rlpVars

\* Mutant of Delete: the pair is removed from the list and stays in om.pairs.
DeleteFromListOnly(key) ==
    /\ mapOp' = MapCall("Delete", key, Nil, 0)
    /\ IF key \notin DOMAIN pairs
       THEN /\ mapRet' = <<Nil, FALSE>>
            /\ UNCHANGED <<pairs, pairObjs, elements, listLen, insertionOrder>>
       ELSE LET pair == pairs[key]
                element == pairObjs[pair].element
            IN  /\ IF element \in DOMAIN elements /\ elements[element].list
                   THEN /\ elements' = Remove(elements, element)
                        /\ listLen' = listLen - 1
                   ELSE UNCHANGED <<elements, listLen>>
                /\ mapRet' = <<pairObjs[pair].Value, TRUE>>
                /\ insertionOrder' = SelectSeq(insertionOrder, LAMBDA k : k # key)
                /\ UNCHANGED <<pairs, pairObjs>>
    /\ UNCHANGED rlpVars

\* om.Delete(key).
Delete(key) ==
    /\ mapOp' = MapCall("Delete", key, Nil, 0)
    /\ IF key \notin DOMAIN pairs
       THEN /\ mapRet' = <<Nil, FALSE>>
            /\ UNCHANGED <<pairs, pairObjs, elements, listLen, insertionOrder>>
       ELSE LET pair == pairs[key]
                element == pairObjs[pair].element
            IN  /\ IF elements[element].list
                   THEN /\ elements' = Remove(elements, element)
                        /\ listLen' = listLen - 1
                   ELSE UNCHANGED <<elements, listLen>>
                /\ pairs' = [k \in DOMAIN pairs \ {key} |-> pairs[k]]
                /\ pairObjs' = [x \in DOMAIN pairObjs \ {pair} |-> pairObjs[x]]
                /\ mapRet' = <<pairObjs[pair].Value, TRUE>>
                /\ insertionOrder' = SelectSeq(insertionOrder, LAMBDA k : k # key)
    /\ UNCHANGED rlpVars

\* Mutant of Clear: the list is re-initialised and om.pairs keeps its entries.
ClearListOnly ==
    /\ mapOp' = MapCall("Clear", 0, Nil, 0)
    /\ elements' = ListInit
    /\ listLen' = 0
    /\ mapRet' = Nil
    /\ insertionOrder' = <<>>
    /\ UNCHANGED <<pairs, pairObjs, rlpVars>>

\* om.Clear().
Clear ==
    /\ mapOp' = MapCall("Clear", 0, Nil, 0)
    /\ elements' = ListInit
    /\ listLen' = 0
    /\ pairs' = <<>>
    /\ pairObjs' = <<>>
    /\ mapRet' = Nil
    /\ insertionOrder' = <<>>
    /\ UNCHANGED rlpVars

\* om.Foreach(f): mapRet is the sequence of the calls of f.
Foreach ==
    /\ mapOp' = MapCall("Foreach", 0, Nil, 0)
    /\ mapRet' = ForeachFrom(Oldest, NumKeys + 1)
    /\ UNCHANGED <<pairs, pairObjs, elements, listLen, insertionOrder, rlpVars>>

\* om.ForeachWithError(f), with an f whose call number failAt returns an error.
ForeachWithError(failAt) ==
    /\ mapOp' = MapCall("ForeachWithError", 0, Nil, failAt)
    /\ mapRet' = ForeachFrom(Oldest, failAt)
    /\ UNCHANGED <<pairs, pairObjs, elements, listLen, insertionOrder, rlpVars>>

NextMap ==
    \/ \E key \in Keys, value \in Values : Set(key, value)
    \/ \E key \in Keys : Delete(key)
    \/ Clear
    \/ Foreach
    \/ \E failAt \in 1..(NumKeys + 1) : ForeachWithError(failAt)

SpecMap == InitMap /\ [][NextMap]_vars

\* ------------------------------------------------- helpers of the properties

RECURSIVE Concat(_)
Concat(ss) == IF ss = <<>> THEN <<>> ELSE Head(ss) \o Concat(Tail(ss))

\* The end index dataStartIndex + dataSize of a successful ReadSize result, when
\* the sum is a small non-negative integer.
EndFits(r) == IsSmallW(AddW(W(r.dataStartIndex), r.dataSize))

EndOf(r) == ValW(AddW(W(r.dataStartIndex), r.dataSize))

\* The sum dataStartIndex + dataSize exceeds the largest int64.
EndOverflows(r) == ~NegW(r.dataSize) /\ NegW(AddW(W(r.dataStartIndex), r.dataSize))

\* The offset of the first (header) byte of the i-th direct sub-item (i = 1, 2, ...)
\* of a list whose payload starts at first: each next item starts where the
\* one before it ends.
RECURSIVE SubItemCursor(_, _, _)
SubItemCursor(B, first, i) ==
    IF i = 1 THEN first
    ELSE EndOf(ReadSize(B, SubItemCursor(B, first, i - 1)))

\* ReadSize on the i-th direct sub-item.
SubItem(B, first, i) == ReadSize(B, SubItemCursor(B, first, i))

\* The header bytes of the i-th direct sub-item (none for a single byte).
SubItemHeader(B, first, i) ==
    SubSeq(B, SubItemCursor(B, first, i) + 1, SubItem(B, first, i).dataStartIndex)

\* The payload bytes of the i-th direct sub-item.
SubItemPayload(B, first, i) ==
    SubSeq(B, SubItem(B, first, i).dataStartIndex + 1, EndOf(SubItem(B, first, i)))

\* The whole encoding of the i-th direct sub-item, header and payload.
SubItemRaw(B, first, i) ==
    SubSeq(B, SubItemCursor(B, first, i) + 1, EndOf(SubItem(B, first, i)))

DecodeListSucceeded == Returned("DecodeList") /\ out.err = NoErr

DecodeStringSucceeded == Returned("DecodeString") /\ out.err = NoErr

\* -------------------------------------------------------------------- C1

RECURSIVE HeadersAndElements(_, _, _, _)
HeadersAndElements(B, first, items, i) ==
    IF i > Len(items) THEN <<>>
    ELSE SubItemHeader(B, first, i) \o items[i]
            \o HeadersAndElements(B, first, items, i + 1)

C2_ResultIsSubItemPayloads ==
    DecodeListSucceeded =>
        LET r == ReadSize(inp, startIndex)
            first == r.dataStartIndex
            k == Len(out.encodedItems)
        IN  /\ r.err = NoErr /\ EndFits(r)
            /\ \A i \in 1..k :
                LET ri == SubItem(inp, first, i)
                IN  /\ ri.err = NoErr /\ EndFits(ri)
                    /\ SubItemCursor(inp, first, i) < EndOf(r)
                    /\ out.encodedItems[i]
                         = SubSeq(inp, ri.dataStartIndex + 1,
                                  ri.dataStartIndex + ValW(ri.dataSize))
            /\ SubItemCursor(inp, first, k + 1) = EndOf(r)
            /\ (k = 0 <=> r.dataSize = W(0))

\* DecodeList(B, s) has succeeded at a start index s > 0 with several
\* sub-items, one of them with a payload of two bytes or more.
C2_Witness ==
    /\ DecodeListSucceeded
    /\ startIndex > 0
    /\ Len(out.encodedItems) >= 2
    /\ \E i \in 1..Len(out.encodedItems) : Len(out.encodedItems[i]) >= 2

\* -------------------------------------------------------------------- C3

\* The big-endian bytes of n > 0, without leading zeros.
RECURSIVE BigEndian(_)
BigEndian(n) == IF n = 0 THEN <<>> ELSE BigEndian(n \div 256) \o <<n % 256>>

\* The standard RLP encoding of the byte string P.
EncodeString(P) ==
    IF Len(P) = 1 /\ P[1] <= ByteRangeEnd THEN P
    ELSE IF Len(P) <= MaxShortLengthAllowed THEN <<ShortStringRangeStart + Len(P)>> \o P
    ELSE <<ShortStringRangeEnd + Len(BigEndian(Len(P)))>> \o BigEndian(Len(P)) \o P

\* C3: round trip for strings: when DecodeString(B, 0) succeeds with payload P,
\* the standard RLP encoding of P is exactly B.
C3_StringRoundTrip ==
    (DecodeStringSucceeded /\ startIndex = 0) => EncodeString(out.str) = inp

\* -------------------------------------------------------------------- C4

\* The direct sub-items of the list at index 0 of B as values: for each, whether
\* it is a string, and its payload.
ListValue(B) ==
    LET first == ReadSize(B, 0).dataStartIndex
    IN  [i \in 1..Len(DecodeList(B, 0).encodedItems) |->
            <<SubItem(B, first, i).isString, SubItemPayload(B, first, i)>>]

\* C4: canonicality: no two distinct buffers are both accepted by
\* DecodeString(., 0) with the same payload, and no two distinct buffers are
\* both accepted by DecodeList(., 0) for the same list of sub-items.
C4_UniqueEncoding ==
    /\ (DecodeStringSucceeded /\ startIndex = 0) =>
            \A B2 \in ShortInputs :
                (DecodeString(B2, 0).err = NoErr /\ DecodeString(B2, 0).str = out.str)
                    => B2 = inp
    /\ (DecodeListSucceeded /\ startIndex = 0) =>
            \A B2 \in ShortInputs :
                (DecodeList(B2, 0).err = NoErr /\ ListValue(B2) = ListValue(inp))
                    => B2 = inp

\* -------------------------------------------------------------------- C5

\* C5: total consumption: when DecodeString(B, s) or DecodeList(B, s) succeeds,
\* no byte of B lies before the item's header or after its payload, and the
\* sub-items of a list tile its payload.
C5_TotalConsumption ==
    (DecodeStringSucceeded \/ DecodeListSucceeded) =>
        LET r == ReadSize(inp, startIndex)
        IN  /\ startIndex = 0
            /\ EndFits(r) /\ EndOf(r) = Len(inp)
            /\ DecodeListSucceeded =>
                    SubItemCursor(inp, r.dataStartIndex, Len(out.encodedItems) + 1)
                        = EndOf(r)

\* -------------------------------------------------------------------- C6

\* C6: every call returns a success value or one of the eight defined errors;
\* no execution slices B out of range (no panic).
C6_NoPanic ==
    pc = "done" => out.err \in DefinedErrors \cup {NoErr}

\* -------------------------------------------------------------------- C7

\* C7: when payload_start + payload_len exceeds the largest int64, DecodeString
\* fails with IncompleteInput, and so does DecodeList when its first sub-item
\* is such an item.
C7_OverflowIsIncomplete ==
    LET r == ReadSize(inp, startIndex)
    IN  /\ (Returned("DecodeString") /\ r.err = NoErr /\ r.isString /\ EndOverflows(r))
                => out.err = ErrIncompleteInput
        /\ (/\ Returned("DecodeList") /\ r.err = NoErr /\ ~r.isString
            /\ r.dataSize # W(0)
            /\ ReadSize(inp, r.dataStartIndex).err = NoErr
            /\ EndOverflows(ReadSize(inp, r.dataStartIndex)))
                => out.err = ErrIncompleteInput

\* -------------------------------------------------------------------- C8

\* The declared payload of r extends past the end of B, without overflow.
Truncated(B, r) ==
    /\ ~EndOverflows(r)
    /\ LtS(W(Len(B)), AddW(W(r.dataStartIndex), r.dataSize))

\* C8: when ReadSize(B, s) succeeds with the requested type and the declared
\* payload extends past the end of B (no overflow), DecodeString(B, s) and
\* DecodeList(B, s) fail with IncompleteInput.
C8_TruncatedIsIncomplete ==
    LET r == ReadSize(inp, startIndex)
    IN  /\ (Returned("DecodeString") /\ r.err = NoErr /\ r.isString /\ Truncated(inp, r))
                => out.err = ErrIncompleteInput
        /\ (Returned("DecodeList") /\ r.err = NoErr /\ ~r.isString /\ Truncated(inp, r))
                => out.err = ErrIncompleteInput

\* -------------------------------------------------------------------- C9

\* C9: DecodeString fails with TypeMismatch exactly when ReadSize succeeds with
\* a list, DecodeList exactly when ReadSize succeeds with a string, whatever
\* the payload and the bytes after it; an error of ReadSize is returned
\* unchanged; ReadSize itself never returns TypeMismatch.
C9_TypeCheckFirst ==
    LET r == ReadSize(inp, startIndex)
    IN  /\ Returned("ReadSize") => out.err # ErrTypeMismatch
        /\ Returned("DecodeString") =>
                /\ r.err # NoErr => out.err = r.err
                /\ out.err = ErrTypeMismatch <=> (r.err = NoErr /\ ~r.isString)
        /\ Returned("DecodeList") =>
                /\ r.err # NoErr => out.err = r.err
                /\ out.err = ErrTypeMismatch <=> (r.err = NoErr /\ r.isString)

\* DecodeList has returned TypeMismatch for a string whose payload is cut
\* short by the end of the buffer.
C9_Witness ==
    /\ Returned("DecodeList")
    /\ out.err = ErrTypeMismatch
    /\ Truncated(inp, ReadSize(inp, startIndex))

\* ------------------------------------------------------------------- C10

\* The sub-items read from the payload start of the list r parse, fit in B and
\* end exactly at the end of the declared payload.
SubItemsTile(B, r) ==
    \E k \in 0..Len(B) :
        /\ \A i \in 1..k :
            /\ SubItemCursor(B, r.dataStartIndex, i) < EndOf(r)
            /\ SubItem(B, r.dataStartIndex, i).err = NoErr
            /\ EndFits(SubItem(B, r.dataStartIndex, i))
            /\ EndOf(SubItem(B, r.dataStartIndex, i)) <= Len(B)
        /\ SubItemCursor(B, r.dataStartIndex, k + 1) = EndOf(r)

\* C10: DecodeString(B, s) and DecodeList(B, s) return InputContainsExtraBytes
\* if and only if the item at s has the requested type, lies completely in B
\* (for a list: its sub-items tile the payload) and a byte of B follows it.
C10_ExtraBytesIff ==
    LET r == ReadSize(inp, startIndex)
        contained == r.err = NoErr /\ EndFits(r) /\ EndOf(r) < Len(inp)
    IN  /\ Returned("DecodeString") =>
                (out.err = ErrInputContainsExtraBytes <=> (contained /\ r.isString))
        /\ Returned("DecodeList") =>
                (out.err = ErrInputContainsExtraBytes
                    <=> (contained /\ ~r.isString /\ SubItemsTile(inp, r)))

\* ------------------------------------------------------------------- C11

\* From cursor on, the sub-items of the list r read one after another parse
\* and fit inside B until the bytes consumed reach the declared payload
\* length; the result is the end of the last one read, and -1 if one does not
\* parse or does not fit.
RECURSIVE SubItemsEnd(_, _, _)
SubItemsEnd(B, r, cursor) ==
    IF ~LtS(W(cursor - r.dataStartIndex), r.dataSize) THEN cursor
    ELSE LET ri == ReadSize(B, cursor)
         IN  IF ri.err = NoErr /\ EndFits(ri) /\ EndOf(ri) <= Len(B)
             THEN SubItemsEnd(B, r, EndOf(ri))
             ELSE -1

\* The sub-items of the list r parse and fit inside B, and the one that first
\* brings the bytes consumed to payload_len or more brings them above it.
LastSubItemOverruns(B, r) ==
    LET end == SubItemsEnd(B, r, r.dataStartIndex)
    IN  end >= 0 /\ LtS(r.dataSize, W(end - r.dataStartIndex))

\* C11: DecodeList(B, s) returns ListSizeMismatch exactly when the item at s is
\* a list, its sub-items read one after another parse and fit inside B, and the
\* last of them overruns the declared payload; the error is reported rather
\* than InputContainsExtraBytes, and also when the overrunning sub-item ends at
\* the end of B.
C11_ListSizeMismatchIff ==
    Returned("DecodeList") =>
        LET r == ReadSize(inp, startIndex)
        IN  out.err = ErrListSizeMismatch
                <=> (r.err = NoErr /\ ~r.isString /\ LastSubItemOverruns(inp, r))

\* DecodeList has returned ListSizeMismatch on a list whose overrunning
\* sub-item is followed by further bytes of B.
C11_Witness ==
    /\ Returned("DecodeList")
    /\ out.err = ErrListSizeMismatch
    /\ LET r == ReadSize(inp, startIndex)
       IN  /\ LastSubItemOverruns(inp, r)
           /\ SubItemsEnd(inp, r, r.dataStartIndex) < Len(inp)

\* ------------------------------------------------------------------- C12

\* C12: for a non-empty B and 0 <= s < |B| with f = B[s], ReadSize(B, s)
\* succeeds whatever follows s and returns (true, s, 1) for f <= 0x7F,
\* (true, s+1, f-0x80) for 0x80 <= f <= 0xB7 and (false, s+1, f-0xC0) for
\* 0xC0 <= f <= 0xF7; a successful (true, s, 1) occurs only for B[s] <= 0x7F.
C12_ShortFormClassification ==
    (Returned("ReadSize") /\ Len(inp) > 0 /\ startIndex < Len(inp)) =>
        LET f == inp[startIndex + 1]
        IN  /\ f <= 127 => out = ReadSizeOk(TRUE, startIndex, W(1))
            /\ (128 <= f /\ f <= 183) => out = ReadSizeOk(TRUE, startIndex + 1, W(f - 128))
            /\ (192 <= f /\ f <= 247) => out = ReadSizeOk(FALSE, startIndex + 1, W(f - 192))
            /\ (out.err = NoErr /\ out.isString /\ out.dataStartIndex = startIndex
                    /\ out.dataSize = W(1)) => f <= 127

\* ReadSize has returned for the longest short string header, 0xB7, at a start
\* index s > 0 of a buffer that does not hold the 55 bytes it declares.
C12_Witness ==
    /\ Returned("ReadSize")
    /\ startIndex > 0 /\ startIndex < Len(inp)
    /\ inp[startIndex + 1] = 183
    /\ out.err = NoErr
    /\ Len(inp) < startIndex + 1 + 55

\* ------------------------------------------------------------------- C13

\* The first byte f announces a long form.
IsLongForm(f) == (184 <= f /\ f <= 191) \/ (248 <= f /\ f <= 255)

\* The number of length bytes the long-form first byte f announces.
LengthBytes(f) == IF f >= 248 THEN f - 247 ELSE f - 183

\* The big-endian value of the n length bytes after B[s], as a 64-bit word.
LengthValue(B, s, n) == [i \in 1..8 |-> IF i <= 8 - n THEN 0 ELSE B[s + 1 + n - (8 - i)]]

\* C13: for a long-form first byte f = B[s] with n length bytes, ReadSize(B, s)
\* fails IncompleteInput if no byte follows f; for n = 1 it fails
\* NonCanonicalInput iff the length byte is <= 55 and otherwise returns
\* (is_string, s+2, L); for n in 2..8 it fails NonCanonicalInput if the first
\* length byte is 0, even with fewer than n length bytes present, else
\* IncompleteInput if fewer than n are present, else returns
\* (is_string, s+1+n, L) for the big-endian L unless L > 2^63-1; an accepted
\* long-form length is > 55, is >= 256 for n >= 2, and has no leading zero.
C13_LongFormHeaders ==
    (Returned("ReadSize") /\ startIndex < Len(inp) /\ IsLongForm(inp[startIndex + 1])) =>
        LET f == inp[startIndex + 1]
            n == LengthBytes(f)
            isStr == f <= 191
            present == Len(inp) - (startIndex + 1)
        IN  /\ present = 0 => out.err = ErrIncompleteInput
            /\ (present >= 1 /\ n = 1) =>
                    /\ out.err = ErrNonCanonicalInput <=> inp[startIndex + 2] <= 55
                    /\ inp[startIndex + 2] > 55 =>
                            out = ReadSizeOk(isStr, startIndex + 2, W(inp[startIndex + 2]))
            /\ (present >= 1 /\ n >= 2) =>
                    IF inp[startIndex + 2] = 0 THEN out.err = ErrNonCanonicalInput
                    ELSE IF present < n THEN out.err = ErrIncompleteInput
                    ELSE LET L == LengthValue(inp, startIndex, n)
                         IN  ~LtU(MaxLongLengthAllowed, L) =>
                                out = ReadSizeOk(isStr, startIndex + 1 + n, L)
            /\ out.err = NoErr =>
                    /\ LtU(W(55), out.dataSize)
                    /\ n >= 2 => ~LtU(out.dataSize, W(256))
                    /\ \A i \in 1..(8 - n) : out.dataSize[i] = 0
                    /\ out.dataSize[8 - n + 1] # 0

\* ReadSize has accepted a long list header with two length bytes or more at
\* a start index s > 0.
C13_Witness ==
    /\ Returned("ReadSize")
    /\ startIndex > 0 /\ startIndex < Len(inp)
    /\ inp[startIndex + 1] >= 249
    /\ out.err = NoErr
    /\ out.dataStartIndex >= startIndex + 3

\* ------------------------------------------------------------------- C14

\* C14: a successful ReadSize returns a length in 0..2^63-1, never a negative
\* one; when all eight bytes of an 8-byte length field are present, ReadSize
\* fails with DataSizeTooLarge exactly when the first length byte is >= 0x80;
\* the length 2^63-1 (0x7F and seven 0xFF) is accepted with payload start s+9,
\* for the string tag 0xBF and for the list tag 0xFF.
C14_LengthBound ==
    Returned("ReadSize") =>
        /\ out.err = NoErr =>
                ~NegW(out.dataSize) /\ ~LtU(MaxLongLengthAllowed, out.dataSize)
        /\ (/\ startIndex + 9 <= Len(inp)
            /\ inp[startIndex + 1] \in {191, 255}) =>
                /\ out.err = ErrDataSizeTooLarge <=> inp[startIndex + 2] >= 128
                /\ SubSeq(inp, startIndex + 2, startIndex + 9)
                        = <<127, 255, 255, 255, 255, 255, 255, 255>> =>
                    /\ out.err = NoErr
                    /\ out.isString = (inp[startIndex + 1] = 191)
                    /\ out.dataStartIndex = startIndex + 9
                    /\ \A i \in 1..8 : out.dataSize[i] = IF i = 1 THEN 127 ELSE 255

\* ReadSize has accepted the length 2^63-1 under the list tag 0xFF.
C14_Witness ==
    /\ Returned("ReadSize")
    /\ startIndex + 9 <= Len(inp)
    /\ inp[startIndex + 1] = 255
    /\ out.err = NoErr
    /\ out.dataSize[1] = 127 /\ \A i \in 2..8 : out.dataSize[i] = 255

\* ------------------------------------------------------------------- C15

\* The end of the header of the item at s whose payload starts at p: p itself,
\* or s + 1 for the single-byte form, where the byte at s is the whole item.
HeaderEnd(s, p) == IF p = s THEN s + 1 ELSE p

\* Buffers that agree with B on the bytes s..e-1 (0-based): other bytes before
\* s, and other bytes, fewer or more of them, from e on.
SameHeader(B, s, e) ==
    { pre \o SubSeq(B, s + 1, e) \o t :
        pre \in {SubSeq(B, 1, s), Fill(0, s), Fill(255, s)},
        t \in {<<>>, <<0>>, <<255>>, <<128, 0>>, SubSeq(B, e + 1, Len(B))} }

\* C15: when ReadSize(B, s) succeeds, the header lies inside B
\* (s <= payload_start <= |B| and payload_start <= s + 9), and every buffer
\* that agrees with B on the header bytes of the item at s gives the same
\* result at s, whether or not the payload fits in it.
C15_HeaderOnly ==
    (Returned("ReadSize") /\ out.err = NoErr) =>
        /\ startIndex <= out.dataStartIndex
        /\ out.dataStartIndex <= Len(inp)
        /\ out.dataStartIndex <= startIndex + 9
        /\ \A B2 \in SameHeader(inp, startIndex, HeaderEnd(startIndex, out.dataStartIndex)) :
                ReadSize(B2, startIndex) = out

\* ReadSize has succeeded on a long-form header at the very end of the buffer,
\* whose declared payload is not there.
C15_Witness ==
    /\ Returned("ReadSize")
    /\ out.err = NoErr
    /\ out.dataStartIndex >= startIndex + 2
    /\ out.dataStartIndex = Len(inp)
    /\ Truncated(inp, out)

\* ------------------------------------------------------------------- C16

\* C16: on the empty buffer ReadSize, DecodeString and DecodeList fail with
\* EmptyInput for every start index s >= 0, also for s >= |B| = 0; on a
\* non-empty buffer with s >= |B| all three fail with InvalidStartIndex.
C16_InputRangeErrors ==
    pc = "done" =>
        /\ Len(inp) = 0 => out.err = ErrEmptyInput
        /\ (Len(inp) > 0 /\ startIndex >= Len(inp)) => out.err = ErrInvalidStartIndex

\* DecodeList has returned on the empty buffer with start index 1.
C16_Witness ==
    /\ Returned("DecodeList")
    /\ inp = <<>>
    /\ startIndex = 1
    /\ out.err = ErrEmptyInput

\* ------------------------------------------------------------------- C19

\* C19: an error return carries no partial data: ReadSize returns
\* (false, 0, 0) with the error, whichever branch detected it, also for a
\* long-form string header; DecodeString and DecodeList return a nil result
\* with the error.
C19_ErrorsCarryNoData ==
    (pc = "done" /\ out.err \in DefinedErrors) =>
        /\ op = "ReadSize" =>
                /\ out.isString = FALSE
                /\ out.dataStartIndex = 0
                /\ \A i \in 1..8 : out.dataSize[i] = 0
        /\ op = "DecodeString" => out.isNil /\ out.str = <<>>
        /\ op = "DecodeList" => out.isNil /\ out.encodedItems = <<>>

\* ReadSize has returned an error for a long-form string header at a start
\* index s > 0.
C19_Witness ==
    /\ Returned("ReadSize")
    /\ startIndex > 0 /\ startIndex < Len(inp)
    /\ inp[startIndex + 1] \in 184..191
    /\ out.err \in DefinedErrors

\* ------------------------------------------------------------------- C20

\* The end of the payload of the sub-item ri, or the end of B if the payload
\* extends beyond it.
PayloadEndInB(B, ri) == IF EndFits(ri) /\ EndOf(ri) <= Len(B) THEN EndOf(ri) ELSE Len(B)

\* The positions (1-based) of the payload bytes of the sub-items the loop
\* reads from cursor on in the list r: the loop goes on while the bytes consumed
\* are fewer than the declared payload, the sub-item parses and fits inside B.
\* With single, the single-byte sub-items count, whose payload is the byte
\* that is also their header.
RECURSIVE PayloadWalk(_, _, _, _)
PayloadWalk(B, r, cursor, single) ==
    IF ~LtS(W(cursor - r.dataStartIndex), r.dataSize) THEN {}
    ELSE LET ri == ReadSize(B, cursor)
         IN  IF ri.err # NoErr THEN {}
             ELSE (IF single \/ ri.dataStartIndex > cursor
                   THEN (ri.dataStartIndex + 1)..PayloadEndInB(B, ri)
                   ELSE {})
                    \cup (IF EndFits(ri) /\ EndOf(ri) <= Len(B)
                          THEN PayloadWalk(B, r, EndOf(ri), single)
                          ELSE {})

\* The positions of the bytes of B that lie inside the payload of a direct
\* sub-item of the list at s.
PayloadPositions(B, s, single) ==
    LET r == ReadSize(B, s)
    IN  IF r.err # NoErr \/ r.isString THEN {}
        ELSE PayloadWalk(B, r, r.dataStartIndex, single)

\* The bytes written over payload bytes.
OtherBytes == {0, 128, 255}

\* The buffers of the length of B that differ from B only at positions of P:
\* one position changed, or all of them.
ChangedAt(B, P) ==
    { [B EXCEPT ![j] = v] : j \in P, v \in OtherBytes }
        \cup { [j \in 1..Len(B) |-> IF j \in P THEN v ELSE B[j]] : v \in OtherBytes }

\* DecodeList(B2, s) has the outcome res of DecodeList(B, s): the same error
\* or success, and the same boundaries of the returned slices.
SameOutcome(B, B2, s, res) ==
    LET res2 == DecodeList(B2, s)
        first == ReadSize(B, s).dataStartIndex
    IN  /\ res2.err = res.err
        /\ Len(res2.encodedItems) = Len(res.encodedItems)
        /\ \A i \in 1..Len(res.encodedItems) :
                /\ SubItem(B2, first, i).dataStartIndex = SubItem(B, first, i).dataStartIndex
                /\ EndOf(SubItem(B2, first, i)) = EndOf(SubItem(B, first, i))
                /\ Len(res2.encodedItems[i]) = Len(res.encodedItems[i])

\* C20 as stated: two buffers of equal length that differ only in bytes inside
\* the payload of a direct sub-item give the same outcome of DecodeList, with
\* the same slice boundaries.
C20_PayloadBytesIrrelevant ==
    Returned("DecodeList") =>
        \A B2 \in ChangedAt(inp, PayloadPositions(inp, startIndex, TRUE)) :
            SameOutcome(inp, B2, startIndex, out)

\* C20 amended: two buffers of equal length that differ only in bytes inside
\* the payload of a direct sub-item that has a header of its own (any sub-item
\* but a single byte <= 0x7F, which is its own header) give the same outcome of
\* DecodeList, with the same slice boundaries; a list whose sub-item holds
\* malformed RLP, as [0xC2, 0xC1, 0xB8], is accepted.
C20_BytesAfterHeaderIrrelevant ==
    Returned("DecodeList") =>
        /\ \A B2 \in ChangedAt(inp, PayloadPositions(inp, startIndex, FALSE)) :
                SameOutcome(inp, B2, startIndex, out)
        /\ (inp = <<194, 193, 184>> /\ startIndex = 0) => out.err = NoErr

\* DecodeList has succeeded on a list with a sub-item that has a header and a
\* payload which is not well-formed RLP itself.
C20_Witness ==
    /\ DecodeListSucceeded
    /\ \E i \in 1..Len(out.encodedItems) :
            /\ SubItemHeader(inp, ReadSize(inp, startIndex).dataStartIndex, i) # <<>>
            /\ out.encodedItems[i] # <<>>
            /\ ReadSize(out.encodedItems[i], 0).err \in DefinedErrors

\* ------------------------------------------------------------------- C17

\* The keys of a sequence of calls f(key, value).
KeysOf(calls) == [i \in 1..Len(calls) |-> calls[i][1]]

Reverse(seq) == [i \in 1..Len(seq) |-> seq[Len(seq) + 1 - i]]

\* C17: after any sequence of Set, Delete and Clear, Foreach,
\* ForeachWithError and the traversal Oldest()->Next() visit exactly the keys
\* present, each once, in the order of the Sets that made them present (a Set
\* on a present key keeps its position, a key deleted and set again is the
\* newest), with the values Get returns; Newest()->Prev() gives the reverse
\* order.
C17_IterationOrder ==
    LET forward == ForeachFrom(Oldest, NumKeys + 1)
        backward == BackwardFrom(Newest, NumKeys + 1)
    IN  /\ KeysOf(forward) = insertionOrder
        /\ { forward[i][1] : i \in 1..Len(forward) } = DOMAIN pairs
        /\ \A i, j \in 1..Len(forward) : forward[i][1] = forward[j][1] => i = j
        /\ \A i \in 1..Len(forward) : Get(forward[i][1]) = <<forward[i][2], TRUE>>
        /\ backward = Reverse(forward)
        /\ mapOp.name = "Foreach" => mapRet = forward
        /\ mapOp.name = "ForeachWithError" =>
                mapRet = SubSeq(forward, 1, Min(mapOp.failAt, Len(forward)))

\* Foreach has visited every key, in an order that is not the order of the
\* keys themselves, the first one with a nil value.
C17_Witness ==
    /\ mapOp.name = "Foreach"
    /\ Len(mapRet) = NumKeys
    /\ mapRet[1][1] > mapRet[NumKeys][1]
    /\ mapRet[1][2] = Nil

\* ------------------------------------------------------------------- C18

\* C18: in every step, Set(k, v) returns what Get(k) returned just before and
\* afterwards Get(k) = (v, true); Delete(k) returns what Get(k) returned just
\* before and afterwards Get(k) = (nil, false); neither changes Get(k2) for
\* another key k2, and Delete of an absent key changes nothing.
C18_SetDeleteResults ==
    [][ \A k \in Keys, v \in Values :
        /\ mapOp' = MapCall("Set", k, v, 0) =>
            /\ mapRet' = Get(k)
            /\ Get(k)' = <<v, TRUE>>
            /\ \A k2 \in Keys \ {k} : Get(k2)' = Get(k2)
        /\ mapOp' = MapCall("Delete", k, Nil, 0) =>
            /\ mapRet' = Get(k)
            /\ Get(k)' = <<Nil, FALSE>>
            /\ \A k2 \in Keys \ {k} : Get(k2)' = Get(k2)
            /\ k \notin DOMAIN pairs =>
                    UNCHANGED <<pairs, pairObjs, elements, listLen>>
      ]_vars

\* Delete has returned a non-nil value and present = true, and other keys
\* are still in the map.
C18_Witness ==
    /\ mapOp.name = "Delete"
    /\ mapRet[2] = TRUE
    /\ mapRet[1] # Nil
    /\ MapLen = NumKeys - 1

\* ------------------------------------------------------------------- C21

\* One step of DecodeList's loop, from its head with bytesRead < listDataSize:
\* it ends the call with one of the outcomes of ends, or it goes on with the
\* cursor at least one byte further and not beyond the end of B, and one more
\* element collected.
LoopStep(ends) ==
    (pc = "loop" /\ DecodeListMore(CurListState)) =>
        \/ pc' = "done" /\ out'.err \in ends
        \/ /\ pc' = "loop"
           /\ itemStartIndex' >= itemStartIndex + 1
           /\ itemStartIndex' <= Len(inp)
           /\ Len(retList') = Len(retList) + 1

\* At the head of the loop the iterations made are at most the bytes between
\* the payload start and the cursor, so at most |B| - payload_start; a
\* successful result has at most |B| - 1 elements.
LoopBound ==
    /\ pc' = "loop" =>
            /\ Len(retList') <= itemStartIndex' - ReadSize(inp, startIndex).dataStartIndex
            /\ itemStartIndex' <= Len(inp)
    /\ (pc' = "done" /\ op' = "DecodeList" /\ out'.err = NoErr) =>
            Len(out'.encodedItems) <= Len(inp) - 1

\* C21: every iteration of DecodeList's loop either returns an error or
\* advances the cursor by at least one byte, the cursor never exceeds |B| on a
\* continuing iteration, the loop runs at most |B| - payload_start iterations
\* and a successful result has at most |B| - 1 elements.
C21_LoopProgress ==
    [][LoopStep(DefinedErrors) /\ LoopBound]_vars

\* The same with the out-of-range slice of an iteration counted among the
\* ways an iteration ends the call.
C21_LoopProgressOrPanic ==
    [][LoopStep(DefinedErrors \cup {Panic}) /\ LoopBound]_vars

\* DecodeList has succeeded on a list of zero-length sub-items only, one
\* iteration for each byte of the payload.
C21_Witness ==
    /\ DecodeListSucceeded
    /\ Len(out.encodedItems) = Len(inp) - 1
    /\ Len(out.encodedItems) >= 2
    /\ \A i \in 1..Len(out.encodedItems) : out.encodedItems[i] = <<>>

\* ------------------------------------------------------------------- C22

\* The elements of the list from e on by their next pointers, at most fuel.
RECURSIVE ElementsFrom(_, _)
ElementsFrom(e, fuel) ==
    IF e = Nil \/ fuel = 0 THEN <<>>
    ELSE <<e>> \o ElementsFrom(ElementNext(elements, e), fuel - 1)

\* C22: in every state reached from NewStringValueDeclarationOrderedMap by
\* Set, Delete and Clear, the keys of the lookup table are the keys of the
\* pairs in the linked list, no key occurs twice in the list, every pair's
\* list element is the element holding that pair, and Len() is the list
\* length; after Clear, Len() = 0, Oldest() and Newest() are nil and Get
\* reports every key absent.
C22_StructuralInvariant ==
    LET inList == ElementsFrom(Front(elements, listLen), NumKeys + 1)
        keyAt(i) == pairObjs[elements[inList[i]].Value].Key
    IN  /\ \A i \in 1..Len(inList) : elements[inList[i]].Value \in DOMAIN pairObjs
        /\ { keyAt(i) : i \in 1..Len(inList) } = DOMAIN pairs
        /\ \A i, j \in 1..Len(inList) : keyAt(i) = keyAt(j) => i = j
        /\ \A i \in 1..Len(inList) :
                /\ pairObjs[elements[inList[i]].Value].element = inList[i]
                /\ pairs[keyAt(i)] = elements[inList[i]].Value
        /\ \A k \in DOMAIN pairs :
                /\ pairObjs[pairs[k]].Key = k
                /\ elements[pairObjs[pairs[k]].element].Value = pairs[k]
        /\ MapLen = Len(inList)
        /\ MapLen = listLen
        /\ mapOp.name = "Clear" =>
                /\ MapLen = 0
                /\ Oldest = Nil
                /\ Newest = Nil
                /\ \A k \in Keys : Get(k) = <<Nil, FALSE>>

\* Delete has removed a key from a full map, and the keys left are in the
\* list in an order that is not the order of the keys themselves.
C22_Witness ==
    /\ mapOp.name = "Delete"
    /\ mapRet[2] = TRUE
    /\ listLen = NumKeys - 1
    /\ listLen >= 2
    /\ pairObjs[Oldest].Key > pairObjs[Newest].Key

====
